---- MODULE Spec2Model ----
(***************************************************************************)
(* Model of backend/app.py: the ForensicDocumentAnalyzer pipeline and the  *)
(* POST /api/analyze endpoint.                                             *)
(*                                                                         *)
(* Python strings that the code inspects character by character (file     *)
(* names, sentences, keywords) are sequences of one-character strings.     *)
(* The outputs of the external collaborators (PyPDF2, spaCy, the           *)
(* nlp_module functions, uuid4, the filesystem) are drawn from bounded     *)
(* sets; what app.py does with them is computed as app.py computes it.     *)
(***************************************************************************)
EXTENDS Integers, Sequences, FiniteSets, TLC

(***************************************************************************)
(* Bounds of the model.                                                    *)
(***************************************************************************)
\* number of requests that may be in flight together (SpecConc)
NReq == 2
\* longest list the entity extractor returns for one category
MaxEnt == 6
\* most sentences the segmenter returns for one text
MaxSents == 6

Min(a, b) == IF a < b THEN a ELSE b

(***************************************************************************)
(* Python built-ins used by app.py.                                        *)
(***************************************************************************)
\* the None object
None == "<None>"

\* l[:n] for n >= 0
PySlice(l, n) == SubSeq(l, 1, Min(n, Len(l)))

\* d.get(k, default)
DictGet(d, k, default) == IF k \in DOMAIN d THEN d[k] ELSE default

\* bool(d.get(k)) for a dict of lists: a missing key gives None, which is falsy
DictGetTruthy(d, k) == k \in DOMAIN d /\ d[k] # <<>>

UpperChars ==
  <<"A","B","C","D","E","F","G","H","I","J","K","L","M","N","O","P","Q","R","S","T","U","V","W","X","Y","Z">>

LowerChars ==
  <<"a","b","c","d","e","f","g","h","i","j","k","l","m","n","o","p","q","r","s","t","u","v","w","x","y","z">>

LowerChar(c) ==
  IF \E i \in 1..Len(UpperChars) : UpperChars[i] = c
    THEN LowerChars[CHOOSE i \in 1..Len(UpperChars) : UpperChars[i] = c]
    ELSE c

\* s.lower()
StrLower(s) == [i \in 1..Len(s) |-> LowerChar(s[i])]

\* sub in s
StrContains(s, sub) ==
  \E i \in 1..(Len(s) - Len(sub) + 1) : SubSeq(s, i, i + Len(sub) - 1) = sub

\* s.endswith(suffix)
StrEndsWith(s, suffix) ==
  /\ Len(s) >= Len(suffix)
  /\ SubSeq(s, Len(s) - Len(suffix) + 1, Len(s)) = suffix

(***************************************************************************)
(* ForensicDocumentAnalyzer.extract_metadata                               *)
(***************************************************************************)
EntityKeys == {"DATE", "CASE_ID", "PERSON", "ORG", "GPE"}

\* str(e) of the exception a stage raises
ExcMsg(stageName) ==
  CASE stageName = "save" -> "save failed"
    [] stageName = "extract_text" -> "pdf reader failed"
    [] stageName = "preprocess" -> "preprocess_text failed"
    [] stageName = "extract_metadata" -> "extract_entities failed"
    [] stageName = "summarize" -> "summarize failed"
    [] stageName = "extract_findings" -> "nlp failed in findings"
    [] stageName = "statistics" -> "nlp failed in statistics"

\* extract_metadata with the slice of people copied onto organizations
extract_metadata_orgs5(outcome) ==
  IF outcome.raises
    THEN [error |-> ExcMsg("extract_metadata")]
    ELSE LET ents == outcome.entities IN
         [dates         |-> PySlice(DictGet(ents, "DATE", <<>>), 3),
          case_number   |-> IF DictGetTruthy(ents, "CASE_ID")
                              THEN DictGet(ents, "CASE_ID", <<"Unknown">>)[1]
                              ELSE None,
          people        |-> PySlice(DictGet(ents, "PERSON", <<>>), 5),
          organizations |-> PySlice(DictGet(ents, "ORG", <<>>), 5),
          locations     |-> PySlice(DictGet(ents, "GPE", <<>>), 3)]

\* outcome = [raises |-> extract_entities raised, entities |-> the dict it returns]
extract_metadata(outcome) ==
  IF outcome.raises
    THEN [error |-> ExcMsg("extract_metadata")]
    ELSE LET ents == outcome.entities IN
         [dates         |-> PySlice(DictGet(ents, "DATE", <<>>), 3),
          case_number   |-> IF DictGetTruthy(ents, "CASE_ID")
                              THEN DictGet(ents, "CASE_ID", <<"Unknown">>)[1]
                              ELSE None,
          people        |-> PySlice(DictGet(ents, "PERSON", <<>>), 5),
          organizations |-> PySlice(DictGet(ents, "ORG", <<>>), 3),
          locations     |-> PySlice(DictGet(ents, "GPE", <<>>), 3)]

(***************************************************************************)
(* ForensicDocumentAnalyzer.extract_forensic_findings                      *)
(***************************************************************************)
keywords ==
  << <<"c","o","n","c","l","u","d","e">>,
     <<"c","o","n","c","l","u","s","i","o","n">>,
     <<"f","i","n","d","i","n","g">>,
     <<"r","e","s","u","l","t","s">>,
     <<"d","e","t","e","r","m","i","n","e">>,
     <<"i","d","e","n","t","i","f","i","e","d">>,
     <<"m","a","t","c","h">>,
     <<"c","o","n","s","i","s","t","e","n","t"," ","w","i","t","h">>,
     <<"e","v","i","d","e","n","c","e"," ","i","n","d","i","c","a","t","e","s">>,
     <<"a","n","a","l","y","s","i","s"," ","s","h","o","w","s">>,
     <<"e","x","a","m","i","n","a","t","i","o","n"," ","r","e","v","e","a","l","e","d">>,
     <<"t","e","s","t","e","d"," ","p","o","s","i","t","i","v","e">>,
     <<"c","o","m","p","a","r","i","s","o","n">>,
     <<"p","r","o","b","a","b","i","l","i","t","y">> >>

\* any(keyword in sentence.lower() for keyword in keywords)
AnyKeywordIn(sentence) ==
  \E k \in 1..Len(keywords) : StrContains(StrLower(sentence), keywords[k])

\* the for loop of lines 67-69: append every matching sentence, in order
RECURSIVE AppendMatching(_, _)
AppendMatching(sents, acc) ==
  IF sents = <<>>
    THEN acc
    ELSE AppendMatching(Tail(sents),
                        IF AnyKeywordIn(Head(sents)) THEN Append(acc, Head(sents)) ELSE acc)

\* extract_forensic_findings that cuts the sentences to five before filtering
extract_findings_slice_first(outcome) ==
  IF outcome.raises
    THEN <<>>
    ELSE AppendMatching(PySlice(outcome.sents, 5), <<>>)

\* outcome = [raises |-> nlp(text) raised, sents |-> the sentences it returns]
extract_forensic_findings(outcome) ==
  IF outcome.raises
    THEN <<>>
    ELSE PySlice(AppendMatching(outcome.sents, <<>>), 5)

(***************************************************************************)
(* Documents: what the external collaborators return for one PDF.          *)
(*   text           the string PyPDF2 extracts                             *)
(*   sents          the sentences spaCy segments it into                   *)
(*   entities       the dict extract_entities returns                      *)
(*   words          the non-punctuation, non-space tokens spaCy counts     *)
(*   summary_tokens the tokens spaCy counts in the summary                 *)
(***************************************************************************)
SentMatchUpper == <<"A"," ","M","A","T","C","H",".">>
SentPlain      == <<"I","t"," ","r","a","i","n","e","d",".">>
SentConclude   == <<"W","e"," ","c","o","n","c","l","u","d","e",".">>
SentNearMiss   == <<"N","o"," ","m","a","t"," ","c","h",".">>

\* what the segmenter's sentences are drawn from: two that contain a keyword,
\* one of them only once lowercased, and one that contains none
SentencePool == {SentMatchUpper, SentConclude, SentNearMiss}

EntityNames == <<"e1", "e2", "e3", "e4", "e5", "e6", "e7", "e8", "e9">>

\* the lists the extractor may return for one category
EntLists == {SubSeq(EntityNames, 1, n) : n \in 0..MaxEnt}

\* the dicts the extractor may return
EntityMaps == UNION {[D -> EntLists] : D \in SUBSET EntityKeys}

\* the sentence sequences the segmenter may return
SentSeqs == UNION {[1..n -> SentencePool] : n \in 0..MaxSents}

DocScanned ==
  [text |-> <<>>, sents |-> <<>>, entities |-> <<>>, words |-> 0, summary_tokens |-> 0]

DocShort ==
  [text |-> SentPlain \o SentConclude,
   sents |-> <<SentPlain, SentConclude>>,
   entities |-> [k \in {"DATE", "CASE_ID"} |-> <<"e1">>],
   words |-> 4, summary_tokens |-> 6]

DocLong ==
  [text |-> SentMatchUpper \o SentConclude \o SentPlain,
   sents |-> <<SentMatchUpper, SentConclude, SentPlain, SentMatchUpper,
               SentConclude, SentMatchUpper, SentConclude>>,
   entities |-> [k \in {"DATE", "PERSON", "ORG", "GPE"} |-> SubSeq(EntityNames, 1, 6)],
   words |-> 14, summary_tokens |-> 9]

Docs == {DocScanned, DocShort, DocLong}

(***************************************************************************)
(* The filesystem under UPLOAD_FOLDER and uuid4.                           *)
(***************************************************************************)
AllReqs == 1..NReq

UPLOAD_FOLDER == "uploads"

UUIDs == 1..NReq

\* os.path.join(UPLOAD_FOLDER, str(u) + '.pdf')
FilePath(u) == <<UPLOAD_FOLDER, <<u, ".pdf">> >>

Paths == {FilePath(u) : u \in UUIDs}

NoPath == <<>>

\* a path with no file behind it
Absent == [owner |-> 0, complete |-> FALSE]

\* a name generator that can return a value it has returned before
uuid4_repeating(used) == UUIDs

\* uuid.uuid4(): the values it can return after having returned `used`
uuid4(used) == UUIDs \ used

(***************************************************************************)
(* ForensicDocumentAnalyzer.extract_text_from_pdf and analyze_document     *)
(***************************************************************************)
Stages ==
  {"extract_text", "preprocess", "extract_metadata", "summarize",
   "extract_findings", "statistics"}

\* extract_text_from_pdf whose except branch returns a message, not ""
extract_text_error_string(file, doc, faults) ==
  IF file = Absent \/ ~file.complete \/ "extract_text" \in faults
    THEN <<"E","r","r","o","r">>
    ELSE doc.text

\* file: what lies at pdf_path; doc: the document whose bytes were written there
extract_text_from_pdf(file, doc, faults) ==
  IF file = Absent \/ ~file.complete \/ "extract_text" \in faults
    THEN <<>>
    ELSE doc.text

\* nlp_module.extractive_summarization.summarize: the call it was given
summarize(method, top_n) == [method |-> method, top_n |-> top_n]

ErrorResult(msg, calls) == [result |-> [error |-> msg], calls |-> calls]

\* returns the result dict and the stages it called, in order
analyzer_analyze_document(file, doc, faults, summary_length) ==
  LET text == extract_text_from_pdf(file, doc, faults) IN
  IF text = <<>>
    THEN ErrorResult("Could not extract text from PDF", <<"extract_text">>)
  ELSE IF "preprocess" \in faults
    THEN ErrorResult(ExcMsg("preprocess"), <<"extract_text", "preprocess">>)
  ELSE
    LET metadata == extract_metadata([raises |-> "extract_metadata" \in faults,
                                      entities |-> doc.entities])
    IN
    IF "summarize" \in faults
      THEN ErrorResult(ExcMsg("summarize"),
                       <<"extract_text", "preprocess", "extract_metadata", "summarize">>)
    ELSE
      LET summary  == summarize("hybrid", summary_length)
          findings == extract_forensic_findings([raises |-> "extract_findings" \in faults,
                                                 sents |-> doc.sents])
      IN
      IF "statistics" \in faults
        THEN ErrorResult(ExcMsg("statistics"),
                         <<"extract_text", "preprocess", "extract_metadata", "summarize",
                           "extract_findings", "statistics">>)
        ELSE [result |-> [metadata     |-> metadata,
                          summary      |-> summary,
                          key_findings |-> findings,
                          statistics   |-> [word_count     |-> doc.words,
                                            sentence_count |-> Len(doc.sents),
                                            summary_length |-> doc.summary_tokens]],
              calls |-> <<"extract_text", "preprocess", "extract_metadata", "summarize",
                          "extract_findings", "statistics">>]

(***************************************************************************)
(* POST /api/analyze                                                       *)
(***************************************************************************)
\* the mapping with the 'detailed' branch missing
SummaryLengthNoDetailed(form) ==
  LET summary_detail == DictGet(form, "summary_detail", "auto") IN
  IF summary_detail = "brief" THEN 3
  ELSE IF summary_detail = "standard" THEN 5
  ELSE IF summary_detail = "comprehensive" THEN 12
  ELSE 5

\* the mapping of lines 136-146; form is the dict request.form
SummaryLength(form) ==
  LET summary_detail == DictGet(form, "summary_detail", "auto") IN
  IF summary_detail = "brief" THEN 3
  ELSE IF summary_detail = "standard" THEN 5
  ELSE IF summary_detail = "detailed" THEN 8
  ELSE IF summary_detail = "comprehensive" THEN 12
  ELSE 5

PdfSuffix == <<".","p","d","f">>

\* a suffix test that ignores case
IsPdfIgnoringCase(filename) == StrEndsWith(StrLower(filename), PdfSuffix)

\* the test of line 128 on a file whose filename is not empty
IsPdf(filename) == StrEndsWith(filename, PdfSuffix)

VARIABLES
  pc,             \* where each request's handler stands
  request,        \* the request each handler received
  file_path,      \* the handler's local file_path
  uploads,        \* the files under UPLOAD_FOLDER
  issued,         \* the values uuid4 has returned
  summary_length, \* the handler's local summary_length
  invoked,        \* the analyzer stages each request has called, in order
  env,            \* what the environment did to each request
  response,       \* the (body, status) the handler returns
  entities,       \* input of extract_metadata (SpecMeta)
  metadata,       \* its result
  sentences,      \* input of extract_forensic_findings (SpecFindings)
  findings,       \* its result
  stage           \* "input", then "returned" or "raised"

endpointVars ==
  <<pc, request, file_path, uploads, issued, summary_length, invoked, env, response>>

pureVars == <<entities, metadata, sentences, findings, stage>>

vars == <<pc, request, file_path, uploads, issued, summary_length, invoked, env,
          response, entities, metadata, sentences, findings, stage>>

NoRequest == [has_file |-> FALSE, filename |-> <<>>, form |-> <<>>, doc |-> DocScanned]

NoResponse == [status |-> 0, body |-> [error |-> ""]]

NoEnv == [save |-> "none", faults |-> {}, remove |-> "none"]

InitEndpoint ==
  /\ pc = [r \in AllReqs |-> "idle"]
  /\ request = [r \in AllReqs |-> NoRequest]
  /\ file_path = [r \in AllReqs |-> NoPath]
  /\ uploads = [p \in Paths |-> Absent]
  /\ issued = {}
  /\ summary_length = [r \in AllReqs |-> 0]
  /\ invoked = [r \in AllReqs |-> <<>>]
  /\ env = [r \in AllReqs |-> NoEnv]
  /\ response = [r \in AllReqs |-> NoResponse]

InitPure ==
  /\ entities = <<>>
  /\ metadata = [error |-> ""]
  /\ sentences = <<>>
  /\ findings = <<>>
  /\ stage = "input"

Respond(r, body, status) ==
  /\ response' = [response EXCEPT ![r] = [status |-> status, body |-> body]]

\* the checks without the test for an empty filename
UploadErrorNoEmptyCheck(req) ==
  IF ~req.has_file THEN "No file part"
  ELSE IF IsPdf(req.filename) THEN None
  ELSE "File must be a PDF"

\* lines 119-128 and 185-186: the error the checks on the upload end in,
\* None when the upload is accepted
UploadError(req) ==
  IF ~req.has_file THEN "No file part"
  ELSE IF req.filename = <<>> THEN "No selected file"
  ELSE IF IsPdf(req.filename) THEN None
  ELSE "File must be a PDF"

\* lines 119-130: the checks on the upload and the choice of the file name
Receive(r, Reqs) ==
  /\ pc[r] = "idle"
  /\ \E req \in Reqs :
       /\ request' = [request EXCEPT ![r] = req]
       /\ IF UploadError(req) # None
            THEN /\ Respond(r, [error |-> UploadError(req)], 400)
                 /\ pc' = [pc EXCEPT ![r] = "done"]
                 /\ UNCHANGED <<file_path, issued>>
            ELSE /\ \E u \in uuid4(issued) :
                      /\ file_path' = [file_path EXCEPT ![r] = FilePath(u)]
                      /\ issued' = issued \cup {u}
                 /\ pc' = [pc EXCEPT ![r] = "save"]
                 /\ UNCHANGED response
  /\ UNCHANGED <<uploads, summary_length, invoked, env, pureVars>>

\* line 132: file.save(file_path) writes the file, or raises having written
\* nothing, or raises having written part of it (lines 173-175 then answer)
Save(r, Outcomes) ==
  /\ pc[r] = "save"
  /\ \E outcome \in Outcomes :
       /\ env' = [env EXCEPT ![r].save = outcome]
       /\ uploads' = IF outcome = "raise_before"
                       THEN uploads
                       ELSE [uploads EXCEPT ![file_path[r]] =
                               [owner |-> r, complete |-> (outcome = "ok")]]
       /\ IF outcome = "ok"
            THEN /\ pc' = [pc EXCEPT ![r] = "analyze"]
                 /\ UNCHANGED response
            ELSE /\ Respond(r, [error |-> ExcMsg("save")], 500)
                 /\ pc' = [pc EXCEPT ![r] = "finally"]
  /\ UNCHANGED <<request, file_path, issued, summary_length, invoked, pureVars>>

\* lines 135-175: map summary_detail, run the analyzer, build the response
Analyze(r, Faults) ==
  /\ pc[r] = "analyze"
  /\ \E faults \in Faults :
       LET length == SummaryLength(request[r].form)
           file   == uploads[file_path[r]]
           doc    == IF file = Absent THEN DocScanned ELSE request[file.owner].doc
           out    == analyzer_analyze_document(file, doc, faults, length)
       IN
       /\ env' = [env EXCEPT ![r].faults = faults]
       /\ summary_length' = [summary_length EXCEPT ![r] = length]
       /\ invoked' = [invoked EXCEPT ![r] = out.calls]
       /\ IF "error" \in DOMAIN out.result
            THEN Respond(r, out.result, 500)
            ELSE Respond(r, [metadata     |-> out.result.metadata,
                             summary      |-> out.result.summary,
                             key_findings |-> out.result.key_findings,
                             statistics   |-> out.result.statistics,
                             document     |-> [filename |-> request[r].filename,
                                               id |-> file_path[r][2][1]]],
                         200)
  /\ pc' = [pc EXCEPT ![r] = "finally"]
  /\ UNCHANGED <<request, file_path, uploads, issued, pureVars>>

\* a cleanup that runs at the end of the try body only, not in a finally block
CleanupOnSuccess(r, Outcomes) ==
  /\ pc[r] = "finally"
  /\ IF uploads[file_path[r]] # Absent /\ response[r].status = 200
       THEN \E outcome \in Outcomes :
              /\ env' = [env EXCEPT ![r].remove = outcome]
              /\ uploads' = IF outcome = "ok"
                              THEN [uploads EXCEPT ![file_path[r]] = Absent]
                              ELSE uploads
       ELSE UNCHANGED <<env, uploads>>
  /\ pc' = [pc EXCEPT ![r] = "done"]
  /\ UNCHANGED <<request, file_path, issued, summary_length, invoked, response, pureVars>>

\* lines 176-183: the finally block, after which the response leaves
Cleanup(r, Outcomes) ==
  /\ pc[r] = "finally"
  /\ IF uploads[file_path[r]] # Absent
       THEN \E outcome \in Outcomes :
              /\ env' = [env EXCEPT ![r].remove = outcome]
              /\ uploads' = IF outcome = "ok"
                              THEN [uploads EXCEPT ![file_path[r]] = Absent]
                              ELSE uploads
       ELSE UNCHANGED <<env, uploads>>
  /\ pc' = [pc EXCEPT ![r] = "done"]
  /\ UNCHANGED <<request, file_path, issued, summary_length, invoked, response, pureVars>>

(***************************************************************************)
(* The pure functions, applied to every input within the bounds.           *)
(***************************************************************************)
\* extract_metadata runs on the dict the extractor returned
ExtractMetadata ==
  /\ stage = "input"
  /\ metadata' = extract_metadata([raises |-> FALSE, entities |-> entities])
  /\ stage' = "returned"
  /\ UNCHANGED <<entities, sentences, findings, endpointVars>>

\* extract_metadata runs and extract_entities raises
ExtractMetadataRaises ==
  /\ stage = "input"
  /\ metadata' = extract_metadata([raises |-> TRUE, entities |-> entities])
  /\ stage' = "raised"
  /\ UNCHANGED <<entities, sentences, findings, endpointVars>>

\* extract_forensic_findings runs on the sentences the segmenter returned
ExtractFindings ==
  /\ stage = "input"
  /\ findings' = extract_forensic_findings([raises |-> FALSE, sents |-> sentences])
  /\ stage' = "returned"
  /\ UNCHANGED <<entities, sentences, metadata, endpointVars>>

\* extract_forensic_findings runs and nlp(text) raises
ExtractFindingsRaises ==
  /\ stage = "input"
  /\ findings' = extract_forensic_findings([raises |-> TRUE, sents |-> sentences])
  /\ stage' = "raised"
  /\ UNCHANGED <<entities, sentences, metadata, endpointVars>>

(***************************************************************************)
(* Inputs of the endpoint.                                                 *)
(***************************************************************************)
Filenames ==
  { <<>>,
    <<"a",".","p","d","f">>,
    <<".","p","d","f">>,
    <<"a",".","t","x","t">>,
    <<"a",".","P","D","F">>,
    <<"a","p","d","f">> }

SummaryDetails ==
  {"brief", "standard", "detailed", "comprehensive", "auto", "verbose", "Brief"}

\* request.form: with or without the summary_detail field
Forms == {<<>>} \cup {[k \in {"summary_detail"} |-> d] : d \in SummaryDetails}

\* every request of one client
Requests ==
  {NoRequest} \cup
  {[has_file |-> TRUE, filename |-> f, form |-> fm, doc |-> d] :
     f \in Filenames, fm \in Forms, d \in Docs}

\* the requests of concurrent clients
ConcRequests ==
  {[has_file |-> TRUE, filename |-> f, form |-> <<>>, doc |-> DocShort] :
     f \in { <<"a",".","p","d","f">>, <<"a",".","t","x","t">> }}

SaveOutcomes == {"ok", "raise_before", "raise_partial"}

RemoveOutcomes == {"ok", "raises"}

FaultSets == SUBSET Stages

ConcFaultSets == {{}, {"summarize"}}

(***************************************************************************)
(* Specifications.                                                         *)
(***************************************************************************)
Init == InitEndpoint /\ InitPure

\* one request at a time, every input and every failure
Next ==
  \/ Receive(1, Requests)
  \/ Save(1, SaveOutcomes)
  \/ Analyze(1, FaultSets)
  \/ Cleanup(1, RemoveOutcomes)

Spec == Init /\ [][Next]_vars

\* NReq requests handled by concurrent threads
NextConc ==
  \E r \in AllReqs :
    \/ Receive(r, ConcRequests)
    \/ Save(r, SaveOutcomes)
    \/ Analyze(r, ConcFaultSets)
    \/ Cleanup(r, RemoveOutcomes)

SpecConc == Init /\ [][NextConc]_vars

InitMeta ==
  /\ InitEndpoint
  /\ entities \in EntityMaps
  /\ metadata = [error |-> ""]
  /\ sentences = <<>>
  /\ findings = <<>>
  /\ stage = "input"

NextMeta == ExtractMetadata \/ ExtractMetadataRaises

SpecMeta == InitMeta /\ [][NextMeta]_vars

InitFindings ==
  /\ InitEndpoint
  /\ entities = <<>>
  /\ metadata = [error |-> ""]
  /\ sentences \in SentSeqs
  /\ findings = <<>>
  /\ stage = "input"

NextFindings == ExtractFindings \/ ExtractFindingsRaises

SpecFindings == InitFindings /\ [][NextFindings]_vars

(***************************************************************************)
(* Properties.                                                             *)
(***************************************************************************)
Range(f) == {f[x] : x \in DOMAIN f}

\* the request has returned a response of the try block (200 or 500)
Returned(r) == pc[r] = "done" /\ response[r].status \in {200, 500}

\* C1 as stated: once a request has returned 200 or 500, the temporary file
\* it created under the uploads directory is gone.
C1_FileGoneAfterResponse ==
  \A r \in AllReqs : Returned(r) => uploads[file_path[r]] = Absent

\* C1, amended: once a request has returned 200 or 500, the temporary file it
\* created is gone unless os.remove raised in the cleanup path; that failure
\* is only logged and the file then stays.
C1_FileGoneUnlessRemoveRaised ==
  \A r \in AllReqs :
    Returned(r) =>
      /\ env[r].remove # "raises" => uploads[file_path[r]] = Absent
      /\ env[r].remove = "raises" => uploads[file_path[r]] # Absent

\* a save raised after writing part of the file, 500 was returned, the file is gone
C1_Witness ==
  \E r \in AllReqs :
    /\ Returned(r)
    /\ response[r].status = 500
    /\ env[r].save = "raise_partial"
    /\ env[r].remove = "ok"
    /\ uploads[file_path[r]] = Absent

\* the pipeline stages that raised while the request was analysed
RaisedStages(r) == env[r].faults \cap Range(invoked[r])

\* C2: for an accepted .pdf upload, an exception in any pipeline stage gives
\* status 500 and a body with a top-level error field; such a failure never
\* gives 200. The field is the exception's message whenever the exception
\* reached a handler that reports it (the reader's exception is swallowed
\* into the empty string and reported by the fixed text of line 80).
C2_StageExceptionGives500 ==
  \A r \in AllReqs :
    (pc[r] = "done" /\ RaisedStages(r) # {}) =>
      /\ response[r].status = 500
      /\ "error" \in DOMAIN response[r].body
      /\ "extract_text" \notin RaisedStages(r) =>
           response[r].body.error \in {ExcMsg(st) : st \in RaisedStages(r)}

\* C3 as stated: every upload whose filename does not end in '.pdf' gets 400
\* with body {"error": "File must be a PDF"}.
C3_NonPdfRejected ==
  \A r \in AllReqs :
    (pc[r] = "done" /\ request[r].has_file
       /\ ~StrEndsWith(request[r].filename, <<".","p","d","f">>)) =>
      response[r] = [status |-> 400, body |-> [error |-> "File must be a PDF"]]

\* C3, amended: every upload whose filename is not empty and does not end in
\* '.pdf' gets 400 with body {"error": "File must be a PDF"}.
C3_NamedNonPdfRejected ==
  \A r \in AllReqs :
    (pc[r] = "done" /\ request[r].has_file
       /\ request[r].filename # <<>>
       /\ ~StrEndsWith(request[r].filename, <<".","p","d","f">>)) =>
      response[r] = [status |-> 400, body |-> [error |-> "File must be a PDF"]]

\* an upload named a.PDF was rejected
C3_Witness ==
  \E r \in AllReqs :
    /\ pc[r] = "done"
    /\ request[r].has_file
    /\ request[r].filename = <<"a",".","P","D","F">>
    /\ response[r].status = 400

\* the request wrote no file and never called the analyzer
Untouched(r) ==
  /\ file_path[r] = NoPath
  /\ invoked[r] = <<>>
  /\ env[r] = NoEnv
  /\ \A p \in Paths : uploads[p].owner # r

\* C4: no 'file' field gives 400 {"error": "No file part"}, a 'file' field
\* with an empty filename gives 400 {"error": "No selected file"}; in both
\* cases nothing is written under uploads and the analyzer is not invoked.
C4_MissingUploadRejected ==
  \A r \in AllReqs :
    pc[r] = "done" =>
      /\ ~request[r].has_file =>
           /\ response[r] = [status |-> 400, body |-> [error |-> "No file part"]]
           /\ Untouched(r)
      /\ (request[r].has_file /\ request[r].filename = <<>>) =>
           /\ response[r] = [status |-> 400, body |-> [error |-> "No selected file"]]
           /\ Untouched(r)

\* a request whose file field has an empty filename was answered
C4_Witness ==
  \E r \in AllReqs :
    /\ pc[r] = "done"
    /\ request[r].has_file
    /\ request[r].filename = <<>>
    /\ response[r].status = 400

\* C5: the target length passed to the analyzer is 3 for brief, 5 for
\* standard, 8 for detailed, 12 for comprehensive and 5 for every other value
\* of summary_detail, the field being absent included.
C5_SummaryLengthTable ==
  \A r \in AllReqs :
    invoked[r] # <<>> =>
      LET form == request[r].form IN
      IF "summary_detail" \notin DOMAIN form THEN summary_length[r] = 5
      ELSE CASE form["summary_detail"] = "brief" -> summary_length[r] = 3
             [] form["summary_detail"] = "standard" -> summary_length[r] = 5
             [] form["summary_detail"] = "detailed" -> summary_length[r] = 8
             [] form["summary_detail"] = "comprehensive" -> summary_length[r] = 12
             [] OTHER -> summary_length[r] = 5

\* the analyzer ran for a request asking for a detailed summary and summarize
\* was given top_n = 8
C5_Witness ==
  \E r \in AllReqs :
    /\ pc[r] = "done"
    /\ response[r].status = 200
    /\ request[r].form = [k \in {"summary_detail"} |-> "detailed"]
    /\ response[r].body.summary.top_n = 8

\* l is the first Min(n, Len(full)) elements of full, in the same order
IsLeadingPrefix(l, full, n) ==
  /\ Len(l) <= n
  /\ Len(l) = Min(n, Len(full))
  /\ \A i \in 1..Len(l) : l[i] = full[i]

\* the list the extractor reported for a category, empty when it reported none
Reported(key) == IF key \in DOMAIN entities THEN entities[key] ELSE <<>>

\* C6: for every dict the extractor returns, dates has at most 3 entries,
\* people at most 5, organizations at most 3 and locations at most 3, each the
\* leading prefix of the extractor's list for DATE, PERSON, ORG and GPE.
C6_MetadataTruncated ==
  stage = "returned" =>
    /\ IsLeadingPrefix(metadata.dates, Reported("DATE"), 3)
    /\ IsLeadingPrefix(metadata.people, Reported("PERSON"), 5)
    /\ IsLeadingPrefix(metadata.organizations, Reported("ORG"), 3)
    /\ IsLeadingPrefix(metadata.locations, Reported("GPE"), 3)

\* the extractor reported more than five entities of every category
C6_Witness ==
  /\ stage = "returned"
  /\ \A key \in {"DATE", "PERSON", "ORG", "GPE"} :
       key \in DOMAIN entities /\ Len(entities[key]) > 5
  /\ Len(metadata.people) = 5
  /\ Len(metadata.dates) = 3

\* the positions of the sentences that contain a keyword
MatchingPositions == {i \in 1..Len(sentences) : AnyKeywordIn(sentences[i])}

\* the position of the k-th sentence that contains a keyword
KthMatch(k) ==
  CHOOSE i \in MatchingPositions :
    Cardinality({j \in MatchingPositions : j < i}) = k - 1

\* C7: key_findings is exactly the first five (or fewer, if fewer exist)
\* sentences that contain a keyword, in document order; it never has more
\* than 5 entries and never holds a sentence that contains no keyword.
C7_FirstFiveMatches ==
  stage = "returned" =>
    /\ Len(findings) <= 5
    /\ Len(findings) = Min(5, Cardinality(MatchingPositions))
    /\ \A k \in 1..Len(findings) :
         /\ findings[k] = sentences[KthMatch(k)]
         /\ AnyKeywordIn(findings[k])

\* six sentences of which the second does not match and the others do, two
\* of them only once lowercased
C7_Witness ==
  /\ stage = "returned"
  /\ sentences = <<SentMatchUpper, SentNearMiss, SentConclude, SentMatchUpper,
                   SentConclude, SentConclude>>
  /\ findings = <<SentMatchUpper, SentConclude, SentMatchUpper, SentConclude,
                  SentConclude>>

\* text extraction gave the empty string: the reader raised or the PDF has no text
ExtractedNothing(r) ==
  /\ env[r].save = "ok"
  /\ pc[r] \in {"finally", "done"}
  /\ ("extract_text" \in env[r].faults \/ request[r].doc.text = <<>>)

\* C8: when text extraction yields the empty string, the reader having
\* raised included, the analyzer calls no later stage and the endpoint answers
\* 500 with the error result.
C8_FailFastOnEmptyText ==
  \A r \in AllReqs :
    ExtractedNothing(r) =>
      /\ invoked[r] = <<"extract_text">>
      /\ response[r] =
           [status |-> 500, body |-> [error |-> "Could not extract text from PDF"]]

\* the reader raised on a PDF that has text, and 500 was returned
C8_Witness ==
  \E r \in AllReqs :
    /\ pc[r] = "done"
    /\ ExtractedNothing(r)
    /\ "extract_text" \in env[r].faults
    /\ request[r].doc = DocLong
    /\ response[r].status = 500

\* the request holds a file name and has not finished its cleanup
InFlight(r) == pc[r] \in {"save", "analyze", "finally"}

\* the request's save has written its file and its cleanup has not run
HasFile(r) ==
  /\ pc[r] \in {"analyze", "finally"}
  /\ env[r].save \in {"ok", "raise_partial"}

\* C9: under any interleaving, requests in flight hold distinct file names,
\* and a request's file exists, with what that request wrote, from its save
\* until its own cleanup.
C9_FilesIsolated ==
  /\ \A r1, r2 \in AllReqs :
       (r1 # r2 /\ InFlight(r1) /\ InFlight(r2)) => file_path[r1] # file_path[r2]
  /\ \A r \in AllReqs :
       HasFile(r) =>
         uploads[file_path[r]] = [owner |-> r, complete |-> (env[r].save = "ok")]

\* one request is in its cleanup while another, saved, awaits analysis
C9_Witness ==
  \E r1, r2 \in AllReqs :
    /\ r1 # r2
    /\ pc[r1] = "finally" /\ HasFile(r1)
    /\ pc[r2] = "analyze" /\ HasFile(r2)

\* C10: case_number is a single value: the first CASE_ID the extractor
\* reports, and 'Unknown' when it reports none (key missing or list empty).
C10_CaseNumberOrUnknown ==
  stage = "returned" =>
    metadata.case_number =
      IF "CASE_ID" \in DOMAIN entities /\ Len(entities["CASE_ID"]) > 0
        THEN entities["CASE_ID"][1]
        ELSE "Unknown"

====
